---- MODULE Spec2Model ----
(***************************************************************************)
(* The KRMC pharmacy dashboard (src/eda_streamlit.py) as a state machine.  *)
(*                                                                         *)
(* One run of the Streamlit script is a walk of pc through the script:    *)
(* the password gate, the CSV load, the outlier filter, and the four      *)
(* analysis modules.  The session state (st.session_state) survives the   *)
(* runs; every table is rebuilt by every run.                              *)
(*                                                                         *)
(* Money is held in cents (an integer), so R64,999.99 is 6499999.  A       *)
(* float that is a quotient is held exactly, as a fraction [num, den]     *)
(* in lowest terms; den = 0 holds inf (num = 1) and NaN (num = 0).        *)
(***************************************************************************)
EXTENDS Integers, Sequences, FiniteSets, TLC

VARIABLES
    csv,            \* the rows of anon_krmc_five_year_data_19_23.csv
    widgets,        \* the values the user holds in the number/multiselect widgets
    session_state,  \* st.session_state: a function on the keys that are set
    entered,        \* the text last submitted in the password box ("" before any)
    pc,             \* the position of the script run
    rendered,       \* the elements the current run has put on the page
    df,             \* the shared table (line 48 on)
    df_fa,          \* the financial copy (line 61 on)
    fin,            \* the Financial module's outputs
    ops,            \* the Operational module's outputs
    prod,           \* the Product module's outputs
    presc           \* the Prescriber (Doctor) module's outputs

vars == <<csv, widgets, session_state, entered, pc, rendered, df, df_fa, fin, ops, prod, presc>>

-----------------------------------------------------------------------------
(* Bounds of the model. *)

\* rows of a table of the cleaning family
MaxCleanRows == 2
\* rows of a table of the operational family
MaxOpsRows == 2
\* days of a table of the rolling-window family
MaxDays == 3
\* largest rolling window tried besides the widgets' defaults
MaxWindow == 4
\* products of a table of the product family
MaxProducts == 11

-----------------------------------------------------------------------------
(* Generic helpers: sequences, sorting, exact fractions. *)

\* a sequence built by a function constructor, as a tuple
List(f) == f \o <<>>

Range(s) == {s[i] : i \in DOMAIN s}

Min(a, b) == IF a < b THEN a ELSE b

Abs(x) == IF x < 0 THEN 0 - x ELSE x

RECURSIVE SeqSum(_)
SeqSum(s) == IF s = <<>> THEN 0 ELSE Head(s) + SeqSum(Tail(s))

\* the values f(row) of the rows of t that satisfy P, in table order
Column(t, P(_), f(_)) ==
    LET sel == SelectSeq(t, P) IN List([i \in DOMAIN sel |-> f(sel[i])])

\* the first n elements (DataFrame.head(n))
HeadN(s, n) == SubSeq(s, 1, Min(n, Len(s)))

\* the elements of s at the indices idx, in index order
SubSeqAt(s, idx) ==
    LET rank == [i \in idx |-> Cardinality({j \in idx : j < i})]
    IN  List([k \in 1..Cardinality(idx) |-> s[CHOOSE i \in idx : rank[i] = k - 1]])

\* the members of S in ascending order of the strict total order LT
SortedSeqOf(S, LT(_, _)) ==
    LET rank == [x \in S |-> Cardinality({y \in S : LT(y, x)})]
    IN  List([k \in 1..Cardinality(S) |-> CHOOSE x \in S : rank[x] = k - 1])

\* x inserted into the descending sequence s after every element >= x
InsertDesc(s, x, key(_)) ==
    LET k == Cardinality({i \in DOMAIN s : key(s[i]) >= key(x)})
    IN  SubSeq(s, 1, k) \o <<x>> \o SubSeq(s, k + 1, Len(s))

\* sort_values(by=key, ascending=False): descending, equal keys in table order
SortDesc(s, key(_)) ==
    LET sorted[i \in 0..Len(s)] ==
            IF i = 0 THEN <<>> ELSE InsertDesc(sorted[i - 1], s[i], key)
    IN  sorted[Len(s)]

\* drop_duplicates(subset=key, keep="first")
DropDuplicates(s, key(_)) ==
    SubSeqAt(s, {i \in DOMAIN s : \A j \in 1..(i - 1) : key(s[j]) # key(s[i])})

RECURSIVE GCD(_, _)
GCD(a, b) == IF b = 0 THEN a ELSE GCD(b, a % b)

NaN == [num |-> 0, den |-> 0]
Inf == [num |-> 1, den |-> 0]

\* n / d for d > 0, in lowest terms
Rat(n, d) ==
    LET g == GCD(Abs(n), d)
    IN  [num |-> IF n < 0 THEN 0 - (Abs(n) \div g) ELSE n \div g, den |-> d \div g]

\* float division a / b of two integers, as numpy evaluates it (no exception)
FloatDiv(a, b) ==
    IF b = 0 THEN (IF a = 0 THEN NaN ELSE Inf)
    ELSE IF b < 0 THEN Rat(0 - a, 0 - b) ELSE Rat(a, b)

FloatAdd(x, y) ==
    IF x.den = 0 \/ y.den = 0
    THEN (IF x = NaN \/ y = NaN THEN NaN ELSE Inf)
    ELSE Rat(x.num * y.den + y.num * x.den, x.den * y.den)

RECURSIVE FloatSum(_)
FloatSum(s) == IF s = <<>> THEN Rat(0, 1) ELSE FloatAdd(Head(s), FloatSum(Tail(s)))

\* Series.mean() of a non-empty sequence of floats
FloatMean(s) ==
    LET t == FloatSum(s)
    IN  IF t.den = 0 THEN t ELSE Rat(t.num, t.den * Len(s))

\* Python's order of the strings the tables hold
LexOrder ==
    << "2019", "2020", "2021", "2022", "2023", "ANNA", "ASMAL", "Apr", "Aug",
       "BEN", "BOSMAN", "CHEUNG", "Dec", "FERNANDES", "Feb", "Jan", "Jul", "Jun",
       "KRMC DISPENSARY", "Mar", "May", "Nov", "OLIVIER", "Oct",
       "P01", "P02", "P03", "P04", "P05", "P06", "P07", "P08", "P09", "P10",
       "P11", "P12", "SMITH", "Sep", "WISE", "ZULU" >>

LexRank == [s \in Range(LexOrder) |-> CHOOSE i \in DOMAIN LexOrder : LexOrder[i] = s]

LexPos(s) == LexRank[s]

StrLT(a, b) == LexPos(a) < LexPos(b)

-----------------------------------------------------------------------------
(* Dates. *)

Date(y, m, d) == [year |-> y, month |-> m, day |-> d]

DateLT(a, b) ==
    \/ a.year < b.year
    \/ a.year = b.year /\ a.month < b.month
    \/ a.year = b.year /\ a.month = b.month /\ a.day < b.day

IsLeap(y) == y % 4 = 0 /\ (y % 100 # 0 \/ y % 400 = 0)

DaysInMonth(y, m) ==
    IF m = 2 THEN (IF IsLeap(y) THEN 29 ELSE 28)
    ELSE IF m \in {4, 6, 9, 11} THEN 30 ELSE 31

RECURSIVE DaysBeforeMonth(_, _)
DaysBeforeMonth(y, m) ==
    IF m = 1 THEN 0 ELSE DaysBeforeMonth(y, m - 1) + DaysInMonth(y, m - 1)

\* date.toordinal()
ToOrdinal(d) ==
    LET y1 == d.year - 1
    IN  y1 * 365 + (y1 \div 4) - (y1 \div 100) + (y1 \div 400)
        + DaysBeforeMonth(d.year, d.month) + d.day

\* date.weekday(): Monday is 0, Sunday is 6
Weekday(d) == (ToOrdinal(d) + 6) % 7

\* str(int) of a year of the dataset
YearStr(y) ==
    CASE y = 2019 -> "2019" [] y = 2020 -> "2020" [] y = 2021 -> "2021"
      [] y = 2022 -> "2022" [] y = 2023 -> "2023"

\* .dt.to_period("M").astype(str): the "YYYY-MM" bucket, held as <<year, month>>
ScriptDateMonth(d) == <<d.year, d.month>>

\* the order of the "YYYY-MM" strings
PeriodLT(a, b) == a[1] < b[1] \/ (a[1] = b[1] /\ a[2] < b[2])

\* the .replace({1: "Jan", ..., 12: "Dec"}) lookup
MonthLabel(m) ==
    << "Jan", "Feb", "Mar", "Apr", "May", "Jun",
       "Jul", "Aug", "Sep", "Oct", "Nov", "Dec" >>[m]

-----------------------------------------------------------------------------
(* The password gate. *)

\* st.secrets["password"]
secrets_password == "s3cret"

\* what a user may type into the password box
Passwords == {secrets_password, "guess", ""}

HasKey(s, k) == k \in DOMAIN s

SetKey(s, k, v) == [x \in DOMAIN s \cup {k} |-> IF x = k THEN v ELSE s[x]]

DelKey(s, k) == [x \in DOMAIN s \ {k} |-> s[x]]

\* st.session_state.get("password_correct", False)
PasswordCorrect(s) == HasKey(s, "password_correct") /\ s["password_correct"]

CompareDigest_Any(a, b) == TRUE

\* hmac.compare_digest(a, b)
CompareDigest(a, b) == a = b

password_entered_LockedOut(s) ==
    IF HasKey(s, "password_correct") \/ ~CompareDigest(s["password"], secrets_password)
    THEN SetKey(s, "password_correct", FALSE)
    ELSE DelKey(SetKey(s, "password_correct", TRUE), "password")

\* the callback of the password box
password_entered(s) ==
    IF CompareDigest(s["password"], secrets_password)
    THEN DelKey(SetKey(s, "password_correct", TRUE), "password")
    ELSE SetKey(s, "password_correct", FALSE)

\* what check_password() draws when it returns False, and the warning after it
PromptElements(s) ==
    <<"text_input">>
    \o (IF HasKey(s, "password_correct") THEN <<"error">> ELSE <<>>)
    \o <<"warning">>

\* the value the password box holds
BoxValue(s) == IF HasKey(s, "password") THEN s["password"] ELSE ""

-----------------------------------------------------------------------------
(* Loading and cleaning. *)

\* the retail cap of the outlier filter, R65,000 in cents
RetailCap == 65000 * 100

\* lines 48-55: the table with its Year column
LoadTable(file) ==
    List([i \in DOMAIN file |->
        [Script_Date |-> file[i].Script_Date, Sctno |-> file[i].Sctno,
         Item_Description |-> file[i].Item_Description, Qty |-> file[i].Qty,
         Retail |-> file[i].Retail, Cost |-> file[i].Cost,
         Dispenser |-> file[i].Dispenser, Doctor |-> file[i].Doctor,
         Year |-> file[i].Script_Date.year]])

KeepRetail_AtCap(r) == r.Retail <= RetailCap

\* the row test of df[df["Retail"] < 65000]
KeepRetail(r) == r.Retail < RetailCap

\* line 60
FilterOutliers(t) == SelectSeq(t, KeepRetail)

-----------------------------------------------------------------------------
(* The Financial module (lines 63-134). *)

\* line 85: the gross_profit column
GrossProfitOf(r) == r.Retail - r.Cost

\* lines 63-64: the sum of a column over the rows of 2023
SumOfYear(t, y, col(_)) == SeqSum(Column(t, LAMBDA r : r.Year = y, col))

\* lines 86-88: groupby("Script Date")[["Cost", "Retail", "gross_profit"]].sum()
DailySums(t) ==
    LET days == SortedSeqOf({t[i].Script_Date : i \in DOMAIN t}, DateLT)
    IN  List([k \in DOMAIN days |->
            [Script_Date |-> days[k],
             Cost |-> SeqSum(Column(t, LAMBDA r : r.Script_Date = days[k],
                                    LAMBDA r : r.Cost)),
             Retail |-> SeqSum(Column(t, LAMBDA r : r.Script_Date = days[k],
                                      LAMBDA r : r.Retail)),
             gross_profit |-> SeqSum(Column(t, LAMBDA r : r.Script_Date = days[k],
                                            GrossProfitOf))]])

WindowStart_OneMore(i, w) == i - w

\* the first index of a window of w points that ends at i
WindowStart(i, w) == i - w + 1

\* Series.rolling(window=w).mean() of a sequence of integers
RollingMean(s, w) ==
    List([i \in DOMAIN s |->
        IF WindowStart(i, w) < 1 THEN NaN
        ELSE Rat(SeqSum(SubSeq(s, WindowStart(i, w), i)), w)])

\* lines 101-103: the gross_profit_moving_avg column
WithMovingAvg(gp, w) ==
    LET avg == RollingMean(List([i \in DOMAIN gp |-> gp[i].gross_profit]), w)
    IN  List([i \in DOMAIN gp |->
            [Script_Date |-> gp[i].Script_Date, Cost |-> gp[i].Cost,
             Retail |-> gp[i].Retail, gross_profit |-> gp[i].gross_profit,
             gross_profit_moving_avg |-> avg[i]]])

-----------------------------------------------------------------------------
(* The Operational module (lines 136-231). *)

DayDispLT(a, b) ==
    \/ DateLT(a[1], b[1])
    \/ a[1] = b[1] /\ StrLT(a[2], b[2])

\* lines 138-143: drop_duplicates(subset=["Sctno"]), then the rows counted per
\* (Script Date, Dispenser)
DailyScriptCounts(t) ==
    LET first == DropDuplicates(t, LAMBDA r : r.Sctno)
        keys  == SortedSeqOf({<<first[i].Script_Date, first[i].Dispenser>> :
                                 i \in DOMAIN first}, DayDispLT)
    IN  List([k \in DOMAIN keys |->
            [Script_Date |-> keys[k][1], Dispenser |-> keys[k][2],
             Sctno |-> Len(SelectSeq(first,
                           LAMBDA r : <<r.Script_Date, r.Dispenser>> = keys[k]))]])

\* fillna(0) of the unstacked cell of day d and dispenser p
FilledCell(dd, d, p) ==
    IF \E i \in DOMAIN dd : dd[i].Script_Date = d /\ dd[i].Dispenser = p
    THEN dd[CHOOSE i \in DOMAIN dd : dd[i].Script_Date = d /\ dd[i].Dispenser = p].Sctno
    ELSE 0

FillMissingDays_ObservedOnly(dd) ==
    List([k \in DOMAIN dd |->
        [Script_Date |-> dd[k].Script_Date, Dispenser |-> dd[k].Dispenser,
         Sctno |-> dd[k].Sctno]])

\* lines 146-152: set_index, unstack("Dispenser"), fillna(0), stack, reset_index
FillMissingDays(dd) ==
    LET days  == SortedSeqOf({dd[i].Script_Date : i \in DOMAIN dd}, DateLT)
        disps == SortedSeqOf({dd[i].Dispenser : i \in DOMAIN dd}, StrLT)
        n     == Len(disps)
    IN  List([k \in 1..(Len(days) * n) |->
            LET d == days[((k - 1) \div n) + 1]
                p == disps[((k - 1) % n) + 1]
            IN  [Script_Date |-> d, Dispenser |-> p, Sctno |-> FilledCell(dd, d, p)]])

\* groupby(g)[v].transform(lambda x: x.rolling(window=w).mean()): the value of row i
GroupRolling(t, i, g(_), v(_), w) ==
    LET series == Column(t, LAMBDA r : g(r) = g(t[i]), v)
        pos    == Cardinality({j \in 1..i : g(t[j]) = g(t[i])})
    IN  RollingMean(series, w)[pos]

\* lines 170-172: the Sctno_moving_avg column
WithSctnoMovingAvg(t, w) ==
    List([i \in DOMAIN t |->
        [Script_Date |-> t[i].Script_Date, Dispenser |-> t[i].Dispenser,
         Sctno |-> t[i].Sctno,
         Sctno_moving_avg |->
             GroupRolling(t, i, LAMBDA r : r.Dispenser, LAMBDA r : r.Sctno, w)]])

calculate_hours_open_Through2023(row) ==
    LET day_of_week == Weekday(row.Script_Date)
        year        == row.Script_Date.year
    IN  IF day_of_week = 6 THEN 0
        ELSE IF day_of_week = 5 THEN 4
        ELSE IF year <= 2023 THEN 9 ELSE 11

\* lines 205-217
calculate_hours_open(row) ==
    LET day_of_week == Weekday(row.Script_Date)
        year        == row.Script_Date.year
    IN  IF day_of_week = 6 THEN 0
        ELSE IF day_of_week = 5 THEN 4
        ELSE IF year < 2023 THEN 9 ELSE 11

\* lines 221-222: the no_of_hours_open and rate_of_scripts columns, on every row
WithRate(dd) ==
    List([i \in DOMAIN dd |->
        [Script_Date |-> dd[i].Script_Date, Dispenser |-> dd[i].Dispenser,
         Sctno |-> dd[i].Sctno,
         no_of_hours_open |-> calculate_hours_open(dd[i]),
         rate_of_scripts |-> FloatDiv(dd[i].Sctno, calculate_hours_open(dd[i]))]])

IsOpenDay_Always(r) == TRUE

\* the row test of df_disp[df_disp["no_of_hours_open"] != 0]
IsOpenDay(r) == r.no_of_hours_open # 0

\* line 223
DropClosedDays(dd) == SelectSeq(dd, IsOpenDay)

\* line 224: groupby("Dispenser")["rate_of_scripts"].mean()
MeanRatePerDispenser(dd) ==
    LET disps == SortedSeqOf({dd[i].Dispenser : i \in DOMAIN dd}, StrLT)
    IN  List([k \in DOMAIN disps |->
            [Dispenser |-> disps[k],
             rate_of_scripts |->
                 FloatMean(Column(dd, LAMBDA r : r.Dispenser = disps[k],
                                  LAMBDA r : r.rate_of_scripts))]])

-----------------------------------------------------------------------------
(* The Product module (lines 233-530). *)

RECURSIVE FlattenSeq(_)
FlattenSeq(ss) == IF ss = <<>> THEN <<>> ELSE Head(ss) \o FlattenSeq(Tail(ss))

\* pd.merge(left, right, on=key): each left row with each right row of its key
Merge(left, right, key(_), combine(_, _)) ==
    FlattenSeq(List([i \in DOMAIN left |->
        LET m == SelectSeq(right, LAMBDA r : key(r) = key(left[i]))
        IN  List([j \in DOMAIN m |-> combine(left[i], m[j])])]))

\* sort_values(by=...) ascending under LT, equal keys in table order
SortAsc(s, LT(_, _)) ==
    LET rank == List([i \in DOMAIN s |->
                    Cardinality({j \in DOMAIN s :
                        \/ LT(s[j], s[i])
                        \/ ~LT(s[i], s[j]) /\ ~LT(s[j], s[i]) /\ j < i})])
    IN  List([k \in DOMAIN s |-> s[CHOOSE i \in DOMAIN s : rank[i] = k - 1]])

\* line 234: df["Year"] = df["Year"].astype(str)
YearAsStr(t) ==
    List([i \in DOMAIN t |->
        [Script_Date |-> t[i].Script_Date, Sctno |-> t[i].Sctno,
         Item_Description |-> t[i].Item_Description, Qty |-> t[i].Qty,
         Retail |-> t[i].Retail, Cost |-> t[i].Cost,
         Dispenser |-> t[i].Dispenser, Doctor |-> t[i].Doctor,
         Year |-> YearStr(t[i].Year)]])

\* lines 280-282: the "Script Date Month" column
WithScriptDateMonth(t) ==
    List([i \in DOMAIN t |->
        [Script_Date |-> t[i].Script_Date, Sctno |-> t[i].Sctno,
         Item_Description |-> t[i].Item_Description, Qty |-> t[i].Qty,
         Retail |-> t[i].Retail, Cost |-> t[i].Cost,
         Dispenser |-> t[i].Dispenser, Doctor |-> t[i].Doctor,
         Year |-> t[i].Year,
         Script_Date_Month |-> ScriptDateMonth(t[i].Script_Date)]])

ItemYearLT(a, b) ==
    \/ StrLT(a[1], b[1])
    \/ a[1] = b[1] /\ StrLT(a[2], b[2])

ItemYearKeys(t) ==
    SortedSeqOf({<<t[i].Item_Description, t[i].Year>> : i \in DOMAIN t}, ItemYearLT)

IsItemYear(r, k) == r.Item_Description = k[1] /\ r.Year = k[2]

\* lines 235-237: groupby(["Item Description", "Year"])[["Retail", "Cost"]].sum()
ProductSales(t) ==
    LET keys == ItemYearKeys(t)
    IN  List([k \in DOMAIN keys |->
            [Item_Description |-> keys[k][1], Year |-> keys[k][2],
             Retail |-> SeqSum(Column(t, LAMBDA r : IsItemYear(r, keys[k]),
                                      LAMBDA r : r.Retail)),
             Cost |-> SeqSum(Column(t, LAMBDA r : IsItemYear(r, keys[k]),
                                    LAMBDA r : r.Cost))]])

\* lines 238-243: groupby(["Item Description", "Year"])["Sctno"].count() as Volume
ProductVolume(t) ==
    LET keys == ItemYearKeys(t)
    IN  List([k \in DOMAIN keys |->
            [Item_Description |-> keys[k][1], Year |-> keys[k][2],
             Volume |-> Len(SelectSeq(t, LAMBDA r : IsItemYear(r, keys[k])))]])

\* lines 244-246: the merge on ["Item Description", "Year"]
ProductSalesVolume(t) ==
    Merge(ProductSales(t), ProductVolume(t),
          LAMBDA r : <<r.Item_Description, r.Year>>,
          LAMBDA l, r : [Item_Description |-> l.Item_Description, Year |-> l.Year,
                         Retail |-> l.Retail, Cost |-> l.Cost, Volume |-> r.Volume])

\* lines 257-259: the merge of the same two per-year tables on ["Item Description"]
\* alone (the tables of lines 248-256, summed over the years, are not used)
ProductSalesVolumeExcYear(t) ==
    Merge(ProductSales(t), ProductVolume(t),
          LAMBDA r : r.Item_Description,
          LAMBDA l, r : [Item_Description |-> l.Item_Description, Year_x |-> l.Year,
                         Retail |-> l.Retail, Cost |-> l.Cost,
                         Year_y |-> r.Year, Volume |-> r.Volume])

\* the length of the top-N product lists (.head(10))
TopN == 10

\* the "Item Description" column of a table, as a list
ItemList(t) == List([i \in DOMAIN t |-> t[i].Item_Description])

\* lines 260-265
TopProductsByVolume(t) ==
    ItemList(HeadN(DropDuplicates(SortDesc(ProductSalesVolumeExcYear(t),
                                           LAMBDA r : r.Volume),
                                  LAMBDA r : r.Item_Description), TopN))

\* line 267
VolumeChartRows(t, top) ==
    SelectSeq(ProductSalesVolume(t), LAMBDA r : r.Item_Description \in Range(top))

\* lines 283-287: the product list of the selectbox
ProductList(t) ==
    ItemList(DropDuplicates(SortDesc(ProductSalesVolume(t), LAMBDA r : r.Volume),
                            LAMBDA r : r.Item_Description))

\* lines 292-297: groupby("Item Description")[["Retail", "Cost"]].sum() with its
\* "Gross Profit" column
ProductsGrossProfit(t) ==
    LET items == SortedSeqOf({t[i].Item_Description : i \in DOMAIN t}, StrLT)
    IN  List([k \in DOMAIN items |->
            LET retail == SeqSum(Column(t, LAMBDA r : r.Item_Description = items[k],
                                        LAMBDA r : r.Retail))
                cost   == SeqSum(Column(t, LAMBDA r : r.Item_Description = items[k],
                                        LAMBDA r : r.Cost))
            IN  [Item_Description |-> items[k], Retail |-> retail, Cost |-> cost,
                 Gross_Profit |-> retail - cost]])

ProductsGrossProfitTop_Unsorted(t) == HeadN(ProductsGrossProfit(t), TopN)

\* lines 298-300: sort_values(by="Gross Profit", ascending=False).head(10)
ProductsGrossProfitTop(t) ==
    HeadN(SortDesc(ProductsGrossProfit(t), LAMBDA r : r.Gross_Profit), TopN)

MonthItemYearLT(a, b) ==
    \/ PeriodLT(a[1], b[1])
    \/ a[1] = b[1] /\ StrLT(a[2], b[2])
    \/ a[1] = b[1] /\ a[2] = b[2] /\ StrLT(a[3], b[3])

MonthItemYearKeys(t) ==
    SortedSeqOf({<<t[i].Script_Date_Month, t[i].Item_Description, t[i].Year>> :
                    i \in DOMAIN t}, MonthItemYearLT)

IsMonthItemYear(r, k) ==
    r.Script_Date_Month = k[1] /\ r.Item_Description = k[2] /\ r.Year = k[3]

YearMonthLT(a, b) ==
    \/ StrLT(a.Year, b.Year)
    \/ a.Year = b.Year /\ a.Month < b.Month

\* the Month column .replace()d by its three-letter label
WithMonthLabel(t) ==
    List([i \in DOMAIN t |->
        [Script_Date_Month |-> t[i].Script_Date_Month,
         Item_Description |-> t[i].Item_Description, Year |-> t[i].Year,
         Value |-> t[i].Value, Month |-> MonthLabel(t[i].Month)]])

\* lines 403-431 (agg counts the rows: Sctno) and 433-459 (agg sums Qty):
\* groupby(["Script Date Month", "Item Description", "Year"]), the numeric Month,
\* sort_values(by=["Year", "Month"]), then the month labels
MonthlyByYear(t, agg(_)) ==
    LET keys == MonthItemYearKeys(t)
        grouped ==
            List([k \in DOMAIN keys |->
                [Script_Date_Month |-> keys[k][1], Item_Description |-> keys[k][2],
                 Year |-> keys[k][3],
                 Value |-> agg(SelectSeq(t, LAMBDA r : IsMonthItemYear(r, keys[k]))),
                 Month |-> keys[k][1][2]]])
    IN  WithMonthLabel(SortAsc(grouped, YearMonthLT))

CountRows(rows) == Len(rows)

SumQty(rows) == SeqSum(List([i \in DOMAIN rows |-> rows[i].Qty]))

\* lines 466-469: the merge on ["Month", "Item Description", "Script Date Month", "Year"]
MonthlyVolumeQuantityYear(t) ==
    Merge(MonthlyByYear(t, CountRows), MonthlyByYear(t, SumQty),
          LAMBDA r : <<r.Month, r.Item_Description, r.Script_Date_Month, r.Year>>,
          LAMBDA l, r : [Month |-> l.Month, Item_Description |-> l.Item_Description,
                         Script_Date_Month |-> l.Script_Date_Month, Year |-> l.Year,
                         Sctno |-> l.Value, Qty |-> r.Value])

LabelYearLT(a, b) ==
    \/ StrLT(a[1], b[1])
    \/ a[1] = b[1] /\ StrLT(a[2], b[2])

IntsAsFloats(s) == List([i \in DOMAIN s |-> Rat(s[i], 1)])

\* lines 470-478: the rows of the item, then groupby(["Month", "Year"]).mean()
YearCompareTable(t, item) ==
    LET rows == SelectSeq(MonthlyVolumeQuantityYear(t),
                          LAMBDA r : r.Item_Description = item)
        keys == SortedSeqOf({<<rows[i].Month, rows[i].Year>> : i \in DOMAIN rows},
                            LabelYearLT)
    IN  List([k \in DOMAIN keys |->
            [Month |-> keys[k][1], Year |-> keys[k][2],
             Sctno |-> FloatMean(IntsAsFloats(Column(rows,
                           LAMBDA r : <<r.Month, r.Year>> = keys[k],
                           LAMBDA r : r.Sctno))),
             Qty |-> FloatMean(IntsAsFloats(Column(rows,
                           LAMBDA r : <<r.Month, r.Year>> = keys[k],
                           LAMBDA r : r.Qty)))]])

\* lines 480-499: the two traces of each selected year
YearCompareTraces(t, item, years_to_compare) ==
    LET temp_df == YearCompareTable(t, item)
    IN  List([y \in DOMAIN years_to_compare |->
            LET temp_df_year == SelectSeq(temp_df,
                                    LAMBDA r : r.Year = years_to_compare[y])
            IN  [year |-> years_to_compare[y],
                 x |-> List([i \in DOMAIN temp_df_year |-> temp_df_year[i].Month]),
                 volume |-> List([i \in DOMAIN temp_df_year |-> temp_df_year[i].Sctno]),
                 quantity |-> List([i \in DOMAIN temp_df_year |-> temp_df_year[i].Qty])]])

-----------------------------------------------------------------------------
(* The Prescriber module (lines 533-632). *)

\* line 536
krmc_doctors == <<"FERNANDES", "CHEUNG", "WISE", "BOSMAN", "OLIVIER", "SMITH", "ASMAL">>

\* the pseudo-prescriber of line 616
DispensaryDoctor == "KRMC DISPENSARY"

DoctorDayLT(a, b) ==
    \/ StrLT(a[1], b[1])
    \/ a[1] = b[1] /\ DateLT(a[2], b[2])

\* lines 545-548: the in-house rows, groupby(["Doctor", "Script Date"]) sum of gross_profit
InHouseDailyProfit(t) ==
    LET rows == SelectSeq(t, LAMBDA r : r.Doctor \in Range(krmc_doctors))
        keys == SortedSeqOf({<<rows[i].Doctor, rows[i].Script_Date>> :
                                i \in DOMAIN rows}, DoctorDayLT)
    IN  List([k \in DOMAIN keys |->
            [Doctor |-> keys[k][1], Script_Date |-> keys[k][2],
             gross_profit |->
                 SeqSum(Column(rows,
                               LAMBDA r : <<r.Doctor, r.Script_Date>> = keys[k],
                               GrossProfitOf))]])

\* lines 549-551: the gross_profit_moving_avg column, per Doctor
WithDoctorMovingAvg(t, w) ==
    List([i \in DOMAIN t |->
        [Doctor |-> t[i].Doctor, Script_Date |-> t[i].Script_Date,
         gross_profit |-> t[i].gross_profit,
         gross_profit_moving_avg |->
             GroupRolling(t, i, LAMBDA r : r.Doctor, LAMBDA r : r.gross_profit, w)]])

\* line 615: df[~df["Doctor"].isin(krmc_doctors)]["Doctor"].unique().tolist()
NonRosterDoctors(t) ==
    LET rows == DropDuplicates(SelectSeq(t, LAMBDA r : r.Doctor \notin Range(krmc_doctors)),
                               LAMBDA r : r.Doctor)
    IN  List([i \in DOMAIN rows |-> rows[i].Doctor])

\* list.remove(x) of a list that holds x: its first occurrence removed
ListRemove(l, x) ==
    LET k == CHOOSE i \in DOMAIN l : l[i] = x /\ \A j \in 1..(i - 1) : l[j] # x
    IN  SubSeq(l, 1, k - 1) \o SubSeq(l, k + 1, Len(l))

\* the length of the top external prescriber list (.head(5))
TopExternal == 5

\* lines 617-632: the rows of the external doctors counted per doctor (the sum of the
\* monthly counts), sort_values(ascending=False).head(5)
TopExternalDoctors(t, external) ==
    LET docs == SortedSeqOf({t[i].Doctor : i \in DOMAIN t} \cap Range(external), StrLT)
        vol  == List([k \in DOMAIN docs |->
                    [Doctor |-> docs[k],
                     Sctno |-> Len(SelectSeq(t, LAMBDA r : r.Doctor = docs[k]))]])
        top  == HeadN(SortDesc(vol, LAMBDA r : r.Sctno), TopExternal)
    IN  List([i \in DOMAIN top |-> top[i].Doctor])

-----------------------------------------------------------------------------
(* The state machine. *)

\* the widgets' defaults (lines 98, 167, 542, 464)
DefaultRollingWindow == 14
DefaultDispRollWindow == 30
DefaultDoctorRollWindow == 14
DefaultYears == <<"2022", "2023">>

\* the year line 63 sums
ReportYear == 2023

DefaultWidgets ==
    [rolling_window |-> DefaultRollingWindow,
     disp_roll_window |-> DefaultDispRollWindow,
     dr_gp_rolling_window |-> DefaultDoctorRollWindow,
     years_to_compare |-> DefaultYears]

NoFin == [done |-> FALSE]
NoOps == [stage |-> "none"]
NoProd == [done |-> FALSE]
NoPresc == [stage |-> "none"]

\* a run starts with no table built
FreshRun ==
    /\ df' = <<>>
    /\ df_fa' = <<>>
    /\ fin' = NoFin
    /\ ops' = NoOps
    /\ prod' = NoProd
    /\ presc' = NoPresc

\* the state of a new session on the file and widget values given
SessionStart(file, w) ==
    /\ csv = file
    /\ widgets = w
    /\ session_state = [k \in {} |-> TRUE]
    /\ entered = ""
    /\ pc = "gate"
    /\ rendered = <<>>
    /\ df = <<>>
    /\ df_fa = <<>>
    /\ fin = NoFin
    /\ ops = NoOps
    /\ prod = NoProd
    /\ presc = NoPresc

\* lines 9-35: check_password() and the stop after it
Gate ==
    /\ pc = "gate"
    /\ IF PasswordCorrect(session_state)
       THEN /\ pc' = "load"
            /\ rendered' = <<>>
       ELSE /\ pc' = "stopped"
            /\ rendered' = PromptElements(session_state)
    /\ UNCHANGED <<csv, widgets, session_state, entered, df, df_fa, fin, ops, prod, presc>>

\* the user changes the password box: the box's key is set, the callback of
\* lines 12-18 runs, and the script runs again
PasswordEntered ==
    /\ pc = "stopped"
    /\ \E p \in Passwords \ {BoxValue(session_state)} :
           /\ session_state' = password_entered(SetKey(session_state, "password", p))
           /\ entered' = p
    /\ pc' = "gate"
    /\ rendered' = <<>>
    /\ UNCHANGED <<csv, widgets, df, df_fa, fin, ops, prod, presc>>

\* lines 37-55
Load ==
    /\ pc = "load"
    /\ rendered' = rendered \o <<"title", "markdown">>
    /\ df' = LoadTable(csv)
    /\ pc' = "clean"
    /\ UNCHANGED <<csv, widgets, session_state, entered, df_fa, fin, ops, prod, presc>>

\* lines 57-61
Clean ==
    /\ pc = "clean"
    /\ rendered' = Append(rendered, "header 1")
    /\ df' = FilterOutliers(df)
    /\ df_fa' = FilterOutliers(df)
    /\ pc' = "financial"
    /\ UNCHANGED <<csv, widgets, session_state, entered, fin, ops, prod, presc>>

\* lines 63-134; Timestamp.strftime of line 78 raises on the NaT of an empty table
Financial ==
    /\ pc = "financial"
    /\ IF df_fa = <<>>
       THEN /\ pc' = "crashed"
            /\ rendered' = rendered \o <<"totals 2023", "fig2", "exception">>
            /\ fin' = NoFin
       ELSE /\ pc' = "operational"
            /\ rendered' = rendered \o <<"totals 2023", "fig2", "period", "fig3",
                                         "moving average", "fig5", "box plot">>
            /\ fin' = [done |-> TRUE,
                       total_retail_sales |->
                           SumOfYear(df, ReportYear, LAMBDA r : r.Retail),
                       total_cost_sales |->
                           SumOfYear(df, ReportYear, LAMBDA r : r.Cost),
                       gross_profit |->
                           SeqSum(List([i \in DOMAIN df_fa |-> df_fa[i].Retail]))
                           - SeqSum(List([i \in DOMAIN df_fa |-> df_fa[i].Cost])),
                       df_fa_gp |->
                           WithMovingAvg(DailySums(df_fa), widgets.rolling_window)]
    /\ UNCHANGED <<csv, widgets, session_state, entered, df, df_fa, ops, prod, presc>>

\* lines 136-202
Operational ==
    /\ pc = "operational"
    /\ rendered' = rendered \o <<"header 2", "scripts per day", "scripts moving average",
                                 "days active", "mean scripts per day">>
    /\ ops' = [stage |-> "counts",
               df_disp |-> DailyScriptCounts(df),
               df_disp_all_days |->
                   WithSctnoMovingAvg(FillMissingDays(DailyScriptCounts(df)),
                                      widgets.disp_roll_window),
               df_disp_sr_mean |-> <<>>]
    /\ pc' = "rate"
    /\ UNCHANGED <<csv, widgets, session_state, entered, df, df_fa, fin, prod, presc>>

\* lines 221-222
HoursAndRate ==
    /\ pc = "rate"
    /\ ops' = [ops EXCEPT !.stage = "rate", !.df_disp = WithRate(ops.df_disp)]
    /\ pc' = "rate mean"
    /\ UNCHANGED <<csv, widgets, session_state, entered, rendered, df, df_fa, fin, prod, presc>>

\* lines 223-231
RateMean ==
    /\ pc = "rate mean"
    /\ ops' = [ops EXCEPT !.stage = "mean",
                          !.df_disp = DropClosedDays(ops.df_disp),
                          !.df_disp_sr_mean =
                              MeanRatePerDispenser(DropClosedDays(ops.df_disp))]
    /\ rendered' = Append(rendered, "scripts per hour")
    /\ pc' = "product"
    /\ UNCHANGED <<csv, widgets, session_state, entered, df, df_fa, fin, prod, presc>>

\* lines 233-504, with the item the user holds in the selectbox of line 309
Product ==
    /\ pc = "product"
    /\ LET year_str == YearAsStr(df)
           products == ProductList(year_str)
       IN  \E item \in (IF products = <<>> THEN {"None"} ELSE Range(products)) :
               /\ df' = WithScriptDateMonth(year_str)
               /\ prod' = [done |-> TRUE,
                           top_10_products |-> TopProductsByVolume(year_str),
                           df_product_sales_volume_top_10 |->
                               VolumeChartRows(year_str, TopProductsByVolume(year_str)),
                           products |-> products,
                           df_products_gross_profit_top_10 |->
                               ProductsGrossProfitTop(year_str),
                           item |-> item,
                           year_traces |->
                               YearCompareTraces(WithScriptDateMonth(year_str), item,
                                                 widgets.years_to_compare)]
    /\ rendered' = rendered \o <<"header 3", "top 10 by volume", "top 10 by gross profit",
                                 "monthly volume", "volume and quantity",
                                 "volume and quantity by year", "top 5 for medical aid">>
    /\ pc' = "prescriber"
    /\ UNCHANGED <<csv, widgets, session_state, entered, df_fa, fin, ops, presc>>

\* lines 533-802; list.remove of line 616 raises when the pseudo-prescriber has no row
Prescriber ==
    /\ pc = "prescriber"
    /\ LET gp == WithDoctorMovingAvg(InHouseDailyProfit(df_fa),
                                     widgets.dr_gp_rolling_window)
           others == NonRosterDoctors(df)
       IN  IF DispensaryDoctor \in Range(others)
           THEN /\ presc' = [stage |-> "done",
                             df_int_docs_gp |-> gp,
                             external_doctors |-> ListRemove(others, DispensaryDoctor),
                             top_5_external_doctors |->
                                 TopExternalDoctors(df,
                                     ListRemove(others, DispensaryDoctor))]
                /\ rendered' = rendered \o <<"header 4", "fig6", "krmc monthly volumes",
                                             "krmc volumes by month", "top 5 external",
                                             "top 5 external 2023", "top 5 by month",
                                             "top 5 by volume", "conclusion">>
                /\ pc' = "done"
           ELSE /\ presc' = [stage |-> "in-house",
                             df_int_docs_gp |-> gp,
                             external_doctors |-> others,
                             top_5_external_doctors |-> <<>>]
                /\ rendered' = rendered \o <<"header 4", "fig6", "krmc monthly volumes",
                                             "krmc volumes by month", "exception">>
                /\ pc' = "crashed"
    /\ UNCHANGED <<csv, widgets, session_state, entered, df, df_fa, fin, ops, prod>>

\* an interaction after a run has ended: the script runs again from its top
Rerun ==
    /\ pc \in {"done", "crashed"}
    /\ pc' = "gate"
    /\ rendered' = <<>>
    /\ FreshRun
    /\ UNCHANGED <<csv, widgets, session_state, entered>>

Next ==
    \/ Gate
    \/ PasswordEntered
    \/ Load
    \/ Clean
    \/ Financial
    \/ Operational
    \/ HoursAndRate
    \/ RateMean
    \/ Product
    \/ Prescriber
    \/ Rerun

-----------------------------------------------------------------------------
(* The input files and widget values of the specifications. *)

Row(date, sctno, item, qty, retail, cost, dispenser, doctor) ==
    [Script_Date |-> date, Sctno |-> sctno, Item_Description |-> item, Qty |-> qty,
     Retail |-> retail, Cost |-> cost, Dispenser |-> dispenser, Doctor |-> doctor]

\* the tables of at most n rows drawn from kinds
TablesOf(kinds, n) == UNION {[1..k -> kinds] : k \in 0..n}

Friday2022 == Date(2022, 12, 30)
Saturday2022 == Date(2022, 12, 31)
Sunday2023 == Date(2023, 1, 1)
Monday2023 == Date(2023, 1, 2)
Saturday2023 == Date(2023, 1, 7)

\* Retail at, just below and above the cap; an in-house and the dispensary prescriber
CleanRows ==
    {Row(d, IF doc = "SMITH" THEN 1 ELSE 2, IF doc = "SMITH" THEN "P01" ELSE "P02",
         1, retail, 6000, "ANNA", doc) :
        d \in {Friday2022, Monday2023},
        retail \in {6499999, 6500000, 7000000},
        doc \in {"SMITH", DispensaryDoctor}}

CleanTables == TablesOf(CleanRows, MaxCleanRows)

\* scripts of two dispensers over a Friday and a Saturday of 2022 and a Sunday, a
\* Monday and a Saturday of 2023; a script identifier may recur under another
\* dispenser or day
OpsRows ==
    {Row(d, sctno, "P01", 1, 10000, 6000, disp, DispensaryDoctor) :
        d \in {Friday2022, Saturday2022, Sunday2023, Monday2023, Saturday2023},
        sctno \in {1, 2},
        disp \in {"ANNA", "BEN"}}

OpsTables == TablesOf(OpsRows, MaxOpsRows)

\* the rows of one day of a rolling-window table: one script of ANNA for SMITH, one of
\* BEN for WISE, or two of ANNA and one of BEN
DayBundles(d) ==
    LET a == Row(d, 10 * d.day + 1, "P01", 1, 10000, 6000, "ANNA", "SMITH")
        b == Row(d, 10 * d.day + 2, "P02", 1, 30000, 6000, "BEN", "WISE")
        c == Row(d, 10 * d.day + 3, "P01", 2, 20000, 6000, "ANNA", "SMITH")
    IN  {<<a>>, <<b>>, <<a, b, c>>}

RollDay(k) == Date(2023, 1, 1 + k)

Reverse(s) == List([i \in DOMAIN s |-> s[Len(s) + 1 - i]])

\* tables of up to MaxDays consecutive days, oldest or newest day first
RollTables ==
    LET chrono == UNION {
            {FlattenSeq(List([k \in 1..n |-> pick[k]])) :
                pick \in {f \in [1..n -> UNION {DayBundles(RollDay(k)) : k \in 1..n}] :
                             \A k \in 1..n : f[k] \in DayBundles(RollDay(k))}} :
            n \in 0..MaxDays}
    IN  chrono \cup {Reverse(t) : t \in chrono}

Windows == 1..MaxWindow

\* one window widget moved off its default at a time
RollWidgets ==
    {[DefaultWidgets EXCEPT !.rolling_window = w] : w \in Windows}
    \cup {[DefaultWidgets EXCEPT !.disp_roll_window = w] : w \in Windows}
    \cup {[DefaultWidgets EXCEPT !.dr_gp_rolling_window = w] : w \in Windows}

ProductNames ==
    << "P01", "P02", "P03", "P04", "P05", "P06", "P07", "P08", "P09", "P10",
       "P11", "P12" >>

\* the rows of one product: "two" is two line items of January 2022; "spread" is one
\* line item in each of 2021, 2022 and 2023; "months" is a line item in each of
\* January, February and April 2022; "loss" is one line item of 2023 sold below cost
Profiles == {"two", "spread", "months", "loss"}

ProductRows(i, profile) ==
    LET item == ProductNames[i]
    IN  CASE profile = "two" ->
                << Row(Date(2022, 1, 10), 100 * i + 1, item, 1, 10000, 6000,
                       "ANNA", DispensaryDoctor),
                   Row(Date(2022, 1, 11), 100 * i + 2, item, 2, 10000, 6000,
                       "ANNA", DispensaryDoctor) >>
          [] profile = "spread" ->
                << Row(Date(2021, 3, 10), 100 * i + 1, item, 1, 10000, 6000,
                       "ANNA", DispensaryDoctor),
                   Row(Date(2022, 3, 10), 100 * i + 2, item, 1, 10000, 6000,
                       "ANNA", DispensaryDoctor),
                   Row(Date(2023, 3, 10), 100 * i + 3, item, 1, 10000, 6000,
                       "ANNA", DispensaryDoctor) >>
          [] profile = "months" ->
                << Row(Date(2022, 1, 10), 100 * i + 1, item, 1, 9000, 6000,
                       "ANNA", DispensaryDoctor),
                   Row(Date(2022, 2, 10), 100 * i + 2, item, 3, 9000, 6000,
                       "ANNA", DispensaryDoctor),
                   Row(Date(2022, 4, 10), 100 * i + 3, item, 2, 9000, 6000,
                       "ANNA", DispensaryDoctor) >>
          [] profile = "loss" ->
                << Row(Date(2023, 1, 10), 100 * i + 1, item, 1, 5000, 6000,
                       "ANNA", DispensaryDoctor) >>

\* tables of up to MaxProducts products: the first product and the second choose
\* their profile, the others are "two"
ProductTables ==
    UNION {
        {FlattenSeq(List([i \in 1..n |->
             ProductRows(i, IF i = 1 THEN first
                            ELSE IF i = 2 THEN second ELSE "two")])) :
            first \in Profiles, second \in Profiles} :
        n \in 0..MaxProducts}

ProductWidgets ==
    {DefaultWidgets,
     [DefaultWidgets EXCEPT !.years_to_compare = <<"2023", "2021", "2022">>]}

\* the cleaning family: the gate and the outlier filter
Init == \E file \in CleanTables : SessionStart(file, DefaultWidgets)

Spec == Init /\ [][Next]_vars

\* the operational family
InitOps == \E file \in OpsTables : SessionStart(file, DefaultWidgets)

SpecOps == InitOps /\ [][Next]_vars

\* the rolling-window family
InitRoll == \E file \in RollTables : \E w \in RollWidgets : SessionStart(file, w)

SpecRoll == InitRoll /\ [][Next]_vars

\* the product family
InitProd == \E file \in ProductTables : \E w \in ProductWidgets : SessionStart(file, w)

SpecProd == InitProd /\ [][Next]_vars

-----------------------------------------------------------------------------
(* Helpers of the properties. *)

\* the sum of f over the indices of s that satisfy P
SumWhere(s, P(_), f(_)) ==
    LET acc[i \in 0..Len(s)] ==
            IF i = 0 THEN 0
            ELSE acc[i - 1] + (IF P(s[i]) THEN f(s[i]) ELSE 0)
    IN  acc[Len(s)]

\* the rows of the file whose retail is below R65,000.00, in file order
RowsBelowCap == SelectSeq(csv, LAMBDA r : r.Retail < 6500000)

\* the run has built the cleaned table
Cleaned == pc \in {"financial", "operational", "rate", "rate mean", "product",
                   "prescriber", "done"}
           \/ (pc = "crashed" /\ presc.stage # "none")

-----------------------------------------------------------------------------
(* C1: no row with retail >= 65000 reaches the cleaned tables or an aggregate of
   any module, and every row with retail below 65000 (64999.99 included) is in the
   cleaned tables and counted in the aggregates of its groups: the sums per day, per
   product and per prescriber hold it, and its script is one of the scripts the
   daily counts count. *)
C1_OutlierFilter ==
    /\ Cleaned =>
          /\ Len(df) = Len(RowsBelowCap)
          /\ Len(df_fa) = Len(RowsBelowCap)
          /\ \A i \in DOMAIN df :
                /\ df[i].Retail < 6500000 /\ df[i].Retail = RowsBelowCap[i].Retail
                /\ df[i].Sctno = RowsBelowCap[i].Sctno
                /\ df_fa[i].Retail = RowsBelowCap[i].Retail
    /\ fin.done =>
          /\ fin.gross_profit
                = SumWhere(RowsBelowCap, LAMBDA r : TRUE, LAMBDA r : r.Retail - r.Cost)
          /\ fin.total_retail_sales
                = SumWhere(RowsBelowCap, LAMBDA r : r.Script_Date.year = 2023,
                           LAMBDA r : r.Retail)
          /\ {fin.df_fa_gp[k].Script_Date : k \in DOMAIN fin.df_fa_gp}
                = {r.Script_Date : r \in Range(RowsBelowCap)}
          /\ \A k \in DOMAIN fin.df_fa_gp :
                fin.df_fa_gp[k].Retail
                   = SumWhere(RowsBelowCap,
                              LAMBDA r : r.Script_Date = fin.df_fa_gp[k].Script_Date,
                              LAMBDA r : r.Retail)
    /\ ops.stage = "counts" =>
          /\ {<<ops.df_disp[k].Script_Date, ops.df_disp[k].Dispenser>> :
                 k \in DOMAIN ops.df_disp}
                \subseteq {<<r.Script_Date, r.Dispenser>> : r \in Range(RowsBelowCap)}
          /\ SumWhere(ops.df_disp, LAMBDA r : TRUE, LAMBDA r : r.Sctno)
                = Cardinality({r.Sctno : r \in Range(RowsBelowCap)})
    /\ prod.done =>
          /\ Range(prod.products)
                = {r.Item_Description : r \in Range(RowsBelowCap)}
          /\ SumWhere(prod.df_product_sales_volume_top_10, LAMBDA r : TRUE,
                      LAMBDA r : r.Volume) = Len(RowsBelowCap)
          /\ \A k \in DOMAIN prod.df_products_gross_profit_top_10 :
                LET g == prod.df_products_gross_profit_top_10[k]
                IN  g.Retail = SumWhere(RowsBelowCap,
                                   LAMBDA r : r.Item_Description = g.Item_Description,
                                   LAMBDA r : r.Retail)
    /\ presc.stage # "none" =>
          /\ {<<presc.df_int_docs_gp[k].Doctor, presc.df_int_docs_gp[k].Script_Date>> :
                 k \in DOMAIN presc.df_int_docs_gp}
                = {<<r.Doctor, r.Script_Date>> :
                      r \in {x \in Range(RowsBelowCap) : x.Doctor = "SMITH"}}
          /\ \A k \in DOMAIN presc.df_int_docs_gp :
                LET g == presc.df_int_docs_gp[k]
                IN  g.gross_profit
                       = SumWhere(RowsBelowCap,
                                  LAMBDA r : r.Doctor = g.Doctor
                                             /\ r.Script_Date = g.Script_Date,
                                  LAMBDA r : r.Retail - r.Cost)

\* a finished run on a file that holds a row at exactly R65,000.00 and a row at
\* R64,999.99
C1_Witness ==
    /\ pc = "done"
    /\ \E r \in Range(csv) : r.Retail = 6500000
    /\ \E r \in Range(csv) : r.Retail = 6499999
    /\ Len(df) = 1

-----------------------------------------------------------------------------
(* C9: dashboard content (the title, the loaded table, any chart) exists only
   while the session's password_correct flag is true; the flag turns true only in
   a step that submits the stored secret; and a run with the flag absent or false
   draws the password prompt alone, with the error once an attempt has been
   recorded, and stops. *)
C9_Prompt ==
    IF HasKey(session_state, "password_correct")
    THEN <<"text_input", "error", "warning">>
    ELSE <<"text_input", "warning">>

C9_GateInv ==
    /\ (pc \notin {"gate", "stopped"}) => PasswordCorrect(session_state)
    /\ (pc = "stopped") =>
          /\ ~PasswordCorrect(session_state)
          /\ rendered = C9_Prompt
    /\ ~PasswordCorrect(session_state) =>
          /\ df = <<>> /\ df_fa = <<>>
          /\ ~fin.done /\ ops.stage = "none" /\ ~prod.done /\ presc.stage = "none"
          /\ Range(rendered) \subseteq {"text_input", "error", "warning"}

C9_FlagStep ==
    (~PasswordCorrect(session_state) /\ PasswordCorrect(session_state'))
        => (pc = "stopped" /\ entered' = secrets_password)

C9_Gate == []C9_GateInv /\ [][C9_FlagStep]_vars

\* a run that drew the prompt with the error after a wrong password
C9_Witness ==
    /\ pc = "stopped"
    /\ entered = "guess"
    /\ rendered = <<"text_input", "error", "warning">>

-----------------------------------------------------------------------------
(* C2: the rolling average of a series of n points at window w has n points; its
   first w-1 points are undefined; and every point i >= w (counting from 1) is the
   mean of the w points that end at i.  With w > n every point is undefined and the
   run goes on.  The daily gross-profit series is in date order; the series of each
   dispenser and of each in-house prescriber is in date order and is averaged on
   its own. *)

\* S[a] + ... + S[b]
C2_SumRange(S, a, b) ==
    LET acc[i \in (a - 1)..b] == IF i = a - 1 THEN 0 ELSE acc[i - 1] + S[i]
    IN  acc[b]

\* out is the trailing mean of S at window w
C2_IsRollingMean(S, out, w) ==
    /\ Len(out) = Len(S)
    /\ \A i \in DOMAIN S :
          IF i <= w - 1
          THEN out[i] = NaN
          ELSE /\ out[i].den > 0
               /\ out[i].num * w = out[i].den * C2_SumRange(S, i - w + 1, i)

\* the dates of a table are strictly ascending
C2_DateOrdered(t) ==
    \A i, j \in DOMAIN t : i < j => DateLT(t[i].Script_Date, t[j].Script_Date)

C2_RollingAverage ==
    /\ fin.done =>
          /\ C2_DateOrdered(fin.df_fa_gp)
          /\ C2_IsRollingMean(
                 List([i \in DOMAIN fin.df_fa_gp |-> fin.df_fa_gp[i].gross_profit]),
                 List([i \in DOMAIN fin.df_fa_gp |->
                          fin.df_fa_gp[i].gross_profit_moving_avg]),
                 widgets.rolling_window)
    /\ ops.stage # "none" =>
          \A p \in {"ANNA", "BEN"} :
              LET own == SelectSeq(ops.df_disp_all_days, LAMBDA r : r.Dispenser = p)
              IN  /\ C2_DateOrdered(own)
                  /\ C2_IsRollingMean(
                         List([i \in DOMAIN own |-> own[i].Sctno]),
                         List([i \in DOMAIN own |-> own[i].Sctno_moving_avg]),
                         widgets.disp_roll_window)
    /\ presc.stage # "none" =>
          \A d \in {"SMITH", "WISE"} :
              LET own == SelectSeq(presc.df_int_docs_gp, LAMBDA r : r.Doctor = d)
              IN  /\ C2_DateOrdered(own)
                  /\ C2_IsRollingMean(
                         List([i \in DOMAIN own |-> own[i].gross_profit]),
                         List([i \in DOMAIN own |-> own[i].gross_profit_moving_avg]),
                         widgets.dr_gp_rolling_window)
    /\ pc = "crashed" =>
          \/ ~fin.done /\ RowsBelowCap = <<>>
          \/ presc.stage = "in-house" /\ \A r \in Range(csv) : r.Doctor # "KRMC DISPENSARY"

\* a run whose per-dispenser chart averages two dispensers over three days at window
\* 2, one of them with a gap-filled day, while the daily gross-profit chart is at
\* its default window, which is longer than the series
C2_Witness ==
    /\ presc.stage # "none"
    /\ widgets.disp_roll_window = 2
    /\ Len(ops.df_disp_all_days) = 6
    /\ \E i \in DOMAIN ops.df_disp_all_days :
          /\ ops.df_disp_all_days[i].Sctno = 0
          /\ ops.df_disp_all_days[i].Sctno_moving_avg = [num |-> 1, den |-> 1]
    /\ widgets.rolling_window > Len(fin.df_fa_gp)
    /\ \A i \in DOMAIN fin.df_fa_gp : fin.df_fa_gp[i].gross_profit_moving_avg = NaN

-----------------------------------------------------------------------------
(* C3: the gap-filled daily table has one row for every pair of a day and a
   dispenser of the daily count table, and no other row; at a pair the daily count
   table holds, the row has that count; at every other pair it has 0. *)
C3_GapFill ==
    ops.stage = "counts" =>
        LET counted == ops.df_disp
            filled  == ops.df_disp_all_days
            days    == {counted[k].Script_Date : k \in DOMAIN counted}
            disps   == {counted[k].Dispenser : k \in DOMAIN counted}
        IN  /\ Len(filled) = Cardinality(days) * Cardinality(disps)
            /\ \A d \in days : \A p \in disps :
                  /\ Cardinality({i \in DOMAIN filled :
                         filled[i].Script_Date = d /\ filled[i].Dispenser = p}) = 1
                  /\ \A i \in DOMAIN filled :
                        (filled[i].Script_Date = d /\ filled[i].Dispenser = p) =>
                            IF \E k \in DOMAIN counted :
                                   counted[k].Script_Date = d /\ counted[k].Dispenser = p
                            THEN \E k \in DOMAIN counted :
                                   /\ counted[k].Script_Date = d
                                   /\ counted[k].Dispenser = p
                                   /\ filled[i].Sctno = counted[k].Sctno
                            ELSE filled[i].Sctno = 0

\* two dispensers who each worked one day the other did not: a grid of four rows,
\* two of them filled with 0
C3_Witness ==
    /\ ops.stage = "counts"
    /\ Len(ops.df_disp) = 2
    /\ Len(ops.df_disp_all_days) = 4
    /\ Cardinality({i \in DOMAIN ops.df_disp_all_days :
                       ops.df_disp_all_days[i].Sctno = 0}) = 2

-----------------------------------------------------------------------------
(* C4: for every day and dispenser, the daily count equals the number of distinct
   script identifiers among the cleaned rows of that day and that dispenser. *)
C4_DailyCount(d, p) ==
    SumWhere(ops.df_disp, LAMBDA r : r.Script_Date = d /\ r.Dispenser = p,
             LAMBDA r : r.Sctno)

C4_DistinctScriptsPerDay ==
    ops.stage = "counts" =>
        \A d \in {r.Script_Date : r \in Range(df)} :
            \A p \in {r.Dispenser : r \in Range(df)} :
                C4_DailyCount(d, p)
                    = Cardinality({r.Sctno : r \in {x \in Range(df) :
                                      x.Script_Date = d /\ x.Dispenser = p}})

-----------------------------------------------------------------------------
(* C5: hours-open depends on the date alone: 0 on a Sunday, 4 on a Saturday of 2022
   or of 2023, 9 on a weekday of 2022, 11 on a weekday of 2023.  The scripts-per-hour
   mean of a dispenser is the mean, over the days of the daily count table that are
   the dispenser's and not Sundays, of count / hours-open; a dispenser with Sundays
   only has no mean. *)
C5_Hours(d) ==
    CASE d = Friday2022 -> 9
      [] d = Saturday2022 -> 4
      [] d = Sunday2023 -> 0
      [] d = Monday2023 -> 11
      [] d = Saturday2023 -> 4

C5_HoursAndMean ==
    /\ ops.stage \in {"rate", "mean"} =>
          \A i \in DOMAIN ops.df_disp :
              ops.df_disp[i].no_of_hours_open = C5_Hours(ops.df_disp[i].Script_Date)
    /\ ops.stage = "mean" =>
          \A p \in {"ANNA", "BEN"} :
              LET days == SelectSeq(ops.df_disp_all_days,
                              LAMBDA r : /\ r.Dispenser = p
                                         /\ r.Sctno > 0
                                         /\ r.Script_Date # Sunday2023)
                  mean == SelectSeq(ops.df_disp_sr_mean, LAMBDA r : r.Dispenser = p)
              IN  IF days = <<>> THEN mean = <<>>
                  ELSE /\ Len(mean) = 1
                       /\ mean[1].rate_of_scripts.den > 0
                       /\ mean[1].rate_of_scripts.num * 396 * Len(days)
                             = mean[1].rate_of_scripts.den
                               * SumWhere(days, LAMBDA r : TRUE,
                                     LAMBDA r : r.Sctno * (396 \div C5_Hours(r.Script_Date)))

\* ANNA dispensed on the Sunday and on the Monday of 2023: her mean is 1/11
C5_Witness ==
    /\ ops.stage = "mean"
    /\ \E i \in DOMAIN ops.df_disp_all_days :
          /\ ops.df_disp_all_days[i].Dispenser = "ANNA"
          /\ ops.df_disp_all_days[i].Script_Date = Sunday2023
          /\ ops.df_disp_all_days[i].Sctno = 1
    /\ ops.df_disp_sr_mean
          = <<[Dispenser |-> "ANNA", rate_of_scripts |-> [num |-> 1, den |-> 11]]>>

-----------------------------------------------------------------------------
(* C10 as stated: no row on which count / hours-open has been evaluated has
   hours-open 0. *)
C10_NeverZeroDivisor ==
    ops.stage \in {"rate", "mean"} =>
        \A i \in DOMAIN ops.df_disp : ops.df_disp[i].no_of_hours_open # 0

(* C10 as amended: count / hours-open is evaluated on every row of the daily count
   table, a row with hours-open 0 getting inf; the rows with hours-open 0 are
   removed after that and before the mean per dispenser, so the mean is taken over
   rows with hours-open > 0 and is finite. *)
C10_DropBeforeMean ==
    /\ ops.stage = "rate" =>
          /\ Len(ops.df_disp)
                = Cardinality({i \in DOMAIN ops.df_disp_all_days :
                                  ops.df_disp_all_days[i].Sctno > 0})
          /\ \A i \in DOMAIN ops.df_disp :
                LET r == ops.df_disp[i]
                IN  IF r.no_of_hours_open = 0
                    THEN r.rate_of_scripts = Inf
                    ELSE /\ r.rate_of_scripts.den > 0
                         /\ r.rate_of_scripts.num * r.no_of_hours_open
                               = r.rate_of_scripts.den * r.Sctno
    /\ ops.stage = "mean" =>
          /\ \A i \in DOMAIN ops.df_disp :
                /\ ops.df_disp[i].no_of_hours_open > 0
                /\ ops.df_disp[i].rate_of_scripts.den > 0
          /\ \A k \in DOMAIN ops.df_disp_sr_mean :
                ops.df_disp_sr_mean[k].rate_of_scripts.den > 0
          /\ Len(ops.df_disp)
                = Cardinality({i \in DOMAIN ops.df_disp_all_days :
                                  /\ ops.df_disp_all_days[i].Sctno > 0
                                  /\ ops.df_disp_all_days[i].Script_Date # Sunday2023})

\* the mean has been taken of a table that held a Sunday row and an open day
C10_Witness ==
    /\ ops.stage = "mean"
    /\ Len(ops.df_disp) = 1
    /\ \E i \in DOMAIN ops.df_disp_all_days :
          /\ ops.df_disp_all_days[i].Script_Date = Sunday2023
          /\ ops.df_disp_all_days[i].Sctno > 0

-----------------------------------------------------------------------------
(* C6: at most 10 products are selected for the volume chart, and every selected
   product has a total volume (its number of rows, all years together) that is at
   least the total volume of every product not selected. *)
C6_TotalVolume(item) ==
    Len(SelectSeq(df, LAMBDA r : r.Item_Description = item))

C6_TopByTotalVolume ==
    prod.done =>
        LET selected == Range(prod.top_10_products)
            items    == {r.Item_Description : r \in Range(df)}
        IN  /\ Len(prod.top_10_products) <= 10
            /\ selected \subseteq items
            /\ \A a \in selected : \A b \in items \ selected :
                  C6_TotalVolume(a) >= C6_TotalVolume(b)

-----------------------------------------------------------------------------
(* C7: the gross-profit top 10 has min(10, P) rows for a cleaned table of P products,
   one row per product and no product twice; the gross profit of a row is the
   product's summed retail minus its summed cost; the rows are in descending order of
   gross profit; a product left out has no more gross profit than any product
   included; and the Product module raises nothing. *)
C7_Items == {r.Item_Description : r \in Range(df)}

C7_GrossProfit(item) ==
    SumWhere(df, LAMBDA r : r.Item_Description = item, LAMBDA r : r.Retail)
        - SumWhere(df, LAMBDA r : r.Item_Description = item, LAMBDA r : r.Cost)

C7_TopByGrossProfit ==
    /\ pc \in {"prescriber", "done"} => prod.done
    /\ pc = "crashed" => (~fin.done \/ presc.stage = "in-house")
    /\ prod.done =>
          LET top == prod.df_products_gross_profit_top_10
          IN  /\ Len(top) = Min(10, Cardinality(C7_Items))
              /\ \A i \in DOMAIN top :
                    /\ top[i].Item_Description \in C7_Items
                    /\ top[i].Gross_Profit = C7_GrossProfit(top[i].Item_Description)
              /\ \A i \in DOMAIN top : \A j \in DOMAIN top :
                    /\ i # j => top[i].Item_Description # top[j].Item_Description
                    /\ i < j => top[i].Gross_Profit >= top[j].Gross_Profit
              /\ \A b \in C7_Items \ {top[i].Item_Description : i \in DOMAIN top} :
                    \A i \in DOMAIN top : C7_GrossProfit(b) <= top[i].Gross_Profit

\* eleven products, one of them sold at a loss: ten rows, the loss left out
C7_Witness ==
    /\ prod.done
    /\ Cardinality(C7_Items) = 11
    /\ Len(prod.df_products_gross_profit_top_10) = 10
    /\ \E b \in C7_Items :
          /\ C7_GrossProfit(b) < 0
          /\ \A i \in DOMAIN prod.df_products_gross_profit_top_10 :
                prod.df_products_gross_profit_top_10[i].Item_Description # b

-----------------------------------------------------------------------------
(* C8: in the year comparison of the selected product, the month labels of every
   selected year's volume and quantity series are in Jan-to-Dec order. *)
C8_MonthNumber(label) == CHOOSE m \in 1..12 : MonthLabel(m) = label

C8_JanToDec ==
    prod.done =>
        \A k \in DOMAIN prod.year_traces :
            LET x == prod.year_traces[k].x
            IN  \A i \in DOMAIN x : \A j \in DOMAIN x :
                    i < j => C8_MonthNumber(x[i]) < C8_MonthNumber(x[j])

-----------------------------------------------------------------------------
(* C11: once the cleaned table is built, no step of the Financial, Operational,
   Product or Prescriber module changes it: no column is added, removed or
   retyped. *)
C11_ModuleStep ==
    pc \in {"financial", "operational", "rate", "rate mean", "product", "prescriber"}
        => (df' = df)

C11_CleanTableUnchanged == [][C11_ModuleStep]_vars

-----------------------------------------------------------------------------
(* C12: a mismatched password never locks the session out or ends it.  An attempt
   with a password other than the secret records a failed attempt and the run after
   it shows the prompt with the error message; an attempt with the secret, after
   any failed attempts, sets the flag to true and removes the entered password from
   the session state; and once the flag is true it is true in every later step. *)
C12_FailedRecorded ==
    HasKey(session_state, "password_correct") /\ ~session_state["password_correct"]

\* a step that is an attempt: the callback runs on the password typed
C12_AttemptStep ==
    (pc = "stopped" /\ pc' = "gate") =>
        IF entered' = secrets_password
        THEN /\ PasswordCorrect(session_state')
             /\ ~HasKey(session_state', "password")
        ELSE /\ HasKey(session_state', "password_correct")
             /\ ~session_state'["password_correct"]
             /\ HasKey(session_state', "password")
             /\ session_state'["password"] = entered'

\* the run after a failed attempt: the prompt again, with the error, and the stop
C12_RepromptStep ==
    (pc = "gate" /\ C12_FailedRecorded) =>
        /\ pc' = "stopped"
        /\ rendered' = <<"text_input", "error", "warning">>
        /\ session_state' = session_state

C12_FlagStaysStep ==
    PasswordCorrect(session_state) =>
        /\ PasswordCorrect(session_state')
        /\ ~HasKey(session_state', "password")

C12_Step == C12_AttemptStep /\ C12_RepromptStep /\ C12_FlagStaysStep

C12_Retry == [][C12_Step]_vars

\* the prompt with the error after a second failed attempt: the password box was
\* empty at first, so an empty password is entered only after another one
C12_Witness ==
    /\ pc = "stopped"
    /\ C12_FailedRecorded
    /\ entered = ""
    /\ session_state["password"] = ""
    /\ rendered = <<"text_input", "error", "warning">>

-----------------------------------------------------------------------------
(* C13: for every cleaned table the Prescriber module computes the external
   prescribers without raising; they are the distinct prescribers of the table that
   are neither on the in-house roster nor the pseudo-prescriber "KRMC DISPENSARY",
   also when the pseudo-prescriber has no row; and the top-5 list has
   min(5, number of external prescribers) entries. *)
C13_External ==
    {r.Doctor : r \in Range(df)} \ (Range(krmc_doctors) \cup {"KRMC DISPENSARY"})

C13_ExternalPrescribers ==
    presc.stage # "none" =>
        /\ presc.stage = "done"
        /\ pc # "crashed"
        /\ Range(presc.external_doctors) = C13_External
        /\ Len(presc.external_doctors) = Cardinality(C13_External)
        /\ Len(presc.top_5_external_doctors) = Min(5, Cardinality(C13_External))

====
